---- MODULE Spec2Model ----
(***************************************************************************)
(* Model of src/src/palette.c: palette_generate and the functions it       *)
(* calls (palette_generate_builtin, palette_automatic_build,               *)
(* palette_add_image, palette_generate_with_images).                       *)
(*                                                                         *)
(* One behaviour is one call of palette_generate on a palette built by     *)
(* palette_alloc and filled in by the configuration.  Colour channels are  *)
(* scaled from 0..255 to 0..3 and the entry table from 256 slots to        *)
(* PALETTE_MAX_ENTRIES slots.                                              *)
(***************************************************************************)
EXTENDS Integers, Sequences, FiniteSets, TLC

VARIABLES
    palette,    \* palette_t: the object palette_generate works on
    converts,   \* convert_t **converts: the job descriptors
    pc,         \* position of the call
    ret,        \* return value of palette_generate (-1 while running)
    err,        \* which LL_ERROR was logged
    loc,        \* local variables of palette_generate_with_images
    liq,        \* state of the quantizer library (handles, histogram content)
    heap,       \* image buffers: how many were loaded and freed
    init        \* the palette as it was when palette_generate was called

vars == <<palette, converts, pc, ret, err, loc, liq, heap, init>>

(***************************************************************************)
(* Bounds of the model.                                                    *)
(***************************************************************************)
\* Number of table slots (256 in the program, scaled down).
PALETTE_MAX_ENTRIES == 3
\* Longest list of fixed entries a configuration declares.
MaxFixed == 2
\* Longest list of images a configuration lists explicitly.
MaxImages == 2
\* palette_alloc does not initialise entries[]: at most this many slots
\* hold stale heap content instead of zero bytes.
MaxDirty == 1

Slots == 0 .. (PALETTE_MAX_ENTRIES - 1)

\* entries[PALETTE_MAX_ENTRIES] is the memory right behind the table; the
\* free-slot scan of the exact phase can end there.
SlotsAndBehind == 0 .. PALETTE_MAX_ENTRIES

NULL == "NULL"

\* Alpha of a colour whose alpha byte was never written.
Indeterminate == -1

(***************************************************************************)
(* Colours.                                                                *)
(***************************************************************************)
Color(r, g, b, a) == [r |-> r, g |-> g, b |-> b, a |-> a]

Modes == {"COLOR_MODE_1555_GBGR", "COLOR_MODE_565_RGB"}

\* A 5-bit channel keeps every second value of the scaled range.
To5Bits(x) == (x \div 2) * 2

\* color_convert(&c, mode): the rgb of c rounded to what the mode can hold.
ColorConvert(c, mode) ==
    IF mode = "COLOR_MODE_1555_GBGR"
    THEN [c EXCEPT !.r = To5Bits(c.r), !.g = To5Bits(c.g), !.b = To5Bits(c.b)]
    ELSE [c EXCEPT !.r = To5Bits(c.r), !.b = To5Bits(c.b)]

SameRGB(c, d) == c.r = d.r /\ c.g = d.g /\ c.b = d.b

\* Zero bytes read as a palette_entry_t.
ZeroEntry == [color |-> Color(0, 0, 0, 0), index |-> 0, exact |-> FALSE, valid |-> FALSE]

\* Stale heap content read as a palette_entry_t.
StaleEntry == [color |-> Color(0, 0, 0, 0), index |-> 0, exact |-> FALSE, valid |-> TRUE]

(***************************************************************************)
(* Inputs.                                                                 *)
(***************************************************************************)
\* An exact fixed colour is a key colour, a non-exact one an ink colour.
KeyColor == Color(1, 1, 0, 3)
InkColor == Color(1, 0, 1, 3)

\* What the quantizer may hand back, before the code converts it.
QuantColors == {Color(1, 0, 0, 3), Color(3, 2, 1, 3)}

\* The image files on disk: path -> RGBA pixels.  A path that is not in
\* the domain cannot be loaded.
Disk ==
    [p \in {"key.png", "mix.png"} |->
        IF p = "key.png"
        THEN << Color(1, 1, 0, 3), Color(1, 1, 0, 0) >>
        ELSE << Color(1, 1, 0, 0), Color(3, 2, 1, 3), Color(1, 1, 2, 3) >>]

Paths == {"key.png", "mix.png", "bad.png"}

BuiltinNames == {"xlibc", "rgb332"}

\* Names of palettes that are not builtin: one that jobs use, one that no
\* job uses.
PaletteNames == {"pal", "own"}

\* palette_xlibc[] and palette_rgb332[]: the i-th triplet, scaled.
palette_xlibc(i) == Color((i \div 64) % 4, (i \div 2) % 4, (i \div 8) % 4, 255)
palette_rgb332(i) == Color((i \div 4) % 4, (i \div 16) % 4, i % 4, 255)

SeqsUpTo(S, n) == UNION {[1 .. k -> S] : k \in 0 .. n}

Min(S) == CHOOSE x \in S : \A y \in S : x <= y
Max(S) == CHOOSE x \in S : \A y \in S : x >= y

\* image_t as palette_add_image leaves it.
NewImage(path) == [path |-> path, data |-> << >>, buffer |-> NULL]

\* The job descriptors of the run.
Jobs ==
    << [paletteName |-> "xlibc", images |-> <<"bad.png">>, tilesetGroup |-> NULL],
       [paletteName |-> "pal", images |-> <<"mix.png">>, tilesetGroup |-> <<"key.png">>],
       [paletteName |-> "pal", images |-> <<"mix.png">>, tilesetGroup |-> NULL] >>

\* A fixed entry as the configuration declares it; v is what the
\* configuration left in its valid field.
FixedEntry(index, exact, v) ==
    [color |-> IF exact THEN KeyColor ELSE InkColor,
     index |-> index, exact |-> exact, valid |-> v]

FixedEntrySet(v) == {FixedEntry(s, e, v) : s \in Slots, e \in BOOLEAN}

\* The entry table of a fresh palette: zero bytes, except for at most
\* MaxDirty slots of stale heap content.
FreshTables ==
    { t \in [SlotsAndBehind -> {ZeroEntry, StaleEntry}] :
        /\ t[PALETTE_MAX_ENTRIES] = ZeroEntry
        /\ Cardinality({s \in Slots : t[s] = StaleEntry}) <= MaxDirty }

ZeroTable == [s \in SlotsAndBehind |-> ZeroEntry]

(***************************************************************************)
(* palette_alloc, then the configuration.                                  *)
(***************************************************************************)
InitLoc ==
    [attr |-> NULL, hist |-> NULL, liqresult |-> NULL, liqpalette |-> << >>,
     needquantize |-> FALSE, maxIndex |-> -1, exactEntries |-> 0,
     maxEntries |-> 0, i |-> 0]

InitLiq ==
    [created   |-> [attr |-> 0, hist |-> 0, image |-> 0, result |-> 0],
     destroyed |-> [attr |-> 0, hist |-> 0, image |-> 0, result |-> 0],
     maxColors |-> 0,
     fixedColors |-> << >>,
     rows |-> << >>,
     quantized |-> 0]

Palette(name, mode, automatic, maxEntries, paths, table, fixed) ==
    [name |-> name,
     images |-> [k \in 1 .. Len(paths) |-> NewImage(paths[k])],
     numImages |-> Len(paths),
     maxEntries |-> maxEntries,
     numEntries |-> 0,
     entries |-> table,
     fixedEntries |-> fixed,
     numFixedEntries |-> Len(fixed),
     mode |-> mode,
     automatic |-> automatic]

\* Configurations that exercise the entry table: every list of fixed
\* entries, every capacity, with and without an image.
TablePalette(tables) ==
    \E m \in 1 .. PALETTE_MAX_ENTRIES :
        \/ \E paths \in {<< >>, <<"mix.png">>},
              t \in tables,
              f \in SeqsUpTo(FixedEntrySet(FALSE), MaxFixed) :
               palette = Palette("pal", "COLOR_MODE_1555_GBGR", FALSE, m, paths, t, f)
        \/ \E f \in SeqsUpTo(FixedEntrySet(TRUE), MaxFixed) :
               palette = Palette("pal", "COLOR_MODE_1555_GBGR", FALSE, m, << >>, ZeroTable, f)

\* Configurations that can fill the table: one more fixed entry, the
\* capacity palette_alloc sets, one image.
FullTablePalette ==
    \E f \in [1 .. (MaxFixed + 1) -> FixedEntrySet(FALSE)] :
        palette = Palette("pal", "COLOR_MODE_1555_GBGR", FALSE, PALETTE_MAX_ENTRIES,
                          <<"mix.png">>, ZeroTable, f)

\* Configurations that exercise the image list: every list of images,
\* both modes, explicit and automatic collection.
ImagePalette ==
    \E name \in PaletteNames,
       mode \in Modes,
       a \in BOOLEAN,
       m \in 1 .. PALETTE_MAX_ENTRIES,
       paths \in SeqsUpTo(Paths, MaxImages),
       f \in SeqsUpTo(FixedEntrySet(FALSE), 1) :
        palette = Palette(name, mode, a, m, paths, ZeroTable, f)

\* Configurations with a builtin name.
BuiltinPalette(tables) ==
    \E name \in BuiltinNames,
       mode \in Modes,
       a \in BOOLEAN,
       paths \in SeqsUpTo(Paths, 1),
       t \in tables,
       f \in SeqsUpTo(FixedEntrySet(FALSE), 1) :
        palette = Palette(name, mode, a, PALETTE_MAX_ENTRIES, paths, t, f)

\* The state when palette_generate is called, the entry table being one
\* of `tables`.
Start(tables) ==
    /\ \/ TablePalette(tables)
       \/ FullTablePalette
       \/ ImagePalette
       \/ BuiltinPalette(tables)
    /\ converts = Jobs
    /\ pc = "generate"
    /\ ret = -1
    /\ err = "none"
    /\ loc = InitLoc
    /\ liq = InitLiq
    /\ heap = [loaded |-> 0, freed |-> 0]
    /\ init = palette

\* malloc handed palette_alloc a zero-filled block.
Init == Start({ZeroTable})

\* malloc handed palette_alloc any block.
InitStale == Start(FreshTables)

(***************************************************************************)
(* Helpers shared by the steps.                                            *)
(***************************************************************************)
Return(r, e) ==
    /\ pc' = "done"
    /\ ret' = r
    /\ err' = e

IsBuiltin == palette.name \in BuiltinNames

\* liq_*_destroy(handle): a NULL handle is ignored.
Destroy(l, what) ==
    [l EXCEPT !.destroyed[what] = @ + 1]

(***************************************************************************)
(* palette_generate_builtin                                                *)
(***************************************************************************)
BuiltinTable(name, i) ==
    IF name = "xlibc" THEN palette_xlibc(i) ELSE palette_rgb332(i)

palette_generate_builtin(p, builtin, numEntries, mode) ==
    [p EXCEPT
        !.entries = [s \in SlotsAndBehind |->
                        IF s < numEntries
                        THEN [@[s] EXCEPT !.color = ColorConvert(BuiltinTable(builtin, s), mode)]
                        ELSE @[s]],
        !.numEntries = numEntries]

GenerateBuiltin ==
    /\ pc = "generate"
    /\ IsBuiltin
    /\ palette' = palette_generate_builtin(palette, palette.name,
                                           PALETTE_MAX_ENTRIES, "COLOR_MODE_1555_GBGR")
    /\ Return(0, "none")
    /\ UNCHANGED <<converts, loc, liq, heap, init>>

(***************************************************************************)
(* palette_add_image, palette_automatic_build                              *)
(***************************************************************************)
\* realloc succeeded or not: on failure the images pointer is lost and
\* numImages keeps its value.
palette_add_image(p, path, allocOk) ==
    IF allocOk
    THEN [pal |-> [p EXCEPT !.images = Append(@, NewImage(path)),
                            !.numImages = @ + 1],
          ret |-> 0]
    ELSE [pal |-> [p EXCEPT !.images = << >>], ret |-> 1]

\* JobPaths with the tileset group's images registered before the job's
\* own.
JobPathsTilesFirst(cv) ==
    (IF cv.tilesetGroup = NULL THEN << >> ELSE cv.tilesetGroup) \o cv.images

\* The paths one job registers: its images, then its tileset group's.
JobPaths(cv) ==
    cv.images \o (IF cv.tilesetGroup = NULL THEN << >> ELSE cv.tilesetGroup)

RECURSIVE AddPaths(_, _, _)
\* failAt counts the registrations down to the one whose realloc fails
\* (0 or less: none fails).
AddPaths(r, paths, failAt) ==
    IF paths = << >> \/ r.ret # 0
    THEN [pal |-> r.pal, ret |-> r.ret, failAt |-> failAt]
    ELSE LET a == palette_add_image(r.pal, Head(paths), failAt # 1)
         IN  AddPaths(a, Tail(paths), failAt - 1)

RECURSIVE palette_automatic_build(_, _, _, _)
palette_automatic_build(p, cvs, i, failAt) ==
    IF i > Len(cvs)
    THEN [pal |-> p, ret |-> 0]
    ELSE IF p.name # cvs[i].paletteName
         THEN palette_automatic_build(p, cvs, i + 1, failAt)
         ELSE LET r == AddPaths([pal |-> p, ret |-> 0], JobPaths(cvs[i]), failAt)
              IN  IF r.ret # 0
                  THEN [pal |-> r.pal, ret |-> r.ret]
                  ELSE palette_automatic_build(r.pal, cvs, i + 1, r.failAt)

\* How many registrations the automatic build makes when none fails.
AutoCount(p, cvs) ==
    palette_automatic_build(p, cvs, 1, 0).pal.numImages - p.numImages

AutomaticBuild ==
    /\ pc = "generate"
    /\ ~IsBuiltin
    /\ palette.automatic
    /\ \E failAt \in 0 .. AutoCount(palette, converts) :
         LET r == palette_automatic_build(palette, converts, 1, failAt)
         IN  /\ palette' = r.pal
             /\ IF r.ret # 0
                THEN Return(r.ret, "automatic")
                ELSE /\ pc' = "check"
                     /\ UNCHANGED <<ret, err>>
    /\ UNCHANGED <<converts, loc, liq, heap, init>>

(***************************************************************************)
(* palette_generate after the automatic build                              *)
(***************************************************************************)
AtCheck ==
    \/ pc = "check"
    \/ pc = "generate" /\ ~IsBuiltin /\ ~palette.automatic

TooManyFixed ==
    /\ AtCheck
    /\ palette.numFixedEntries > palette.maxEntries
    /\ Return(1, "too_many_fixed")
    /\ UNCHANGED <<palette, converts, loc, liq, heap, init>>

NoImagesEmpty ==
    /\ AtCheck
    /\ palette.numFixedEntries <= palette.maxEntries
    /\ palette.numImages = 0
    /\ palette.numFixedEntries = 0
    /\ Return(1, "empty")
    /\ UNCHANGED <<palette, converts, loc, liq, heap, init>>

RECURSIVE PlaceFixedLast(_, _, _)
\* PlaceFixed with maxIndex set to the index of each entry placed, not
\* raised to it.
PlaceFixedLast(r, fixed, i) ==
    IF i > Len(fixed)
    THEN r
    ELSE LET fixedEntry == fixed[i]
         IN  PlaceFixedLast([entries  |-> [r.entries EXCEPT ![fixedEntry.index] = fixedEntry],
                             maxIndex |-> fixedEntry.index],
                            fixed, i + 1)

RECURSIVE PlaceFixed(_, _, _)
\* The loop of the branch without images: r is <<entries, maxIndex>>.
PlaceFixed(r, fixed, i) ==
    IF i > Len(fixed)
    THEN r
    ELSE LET fixedEntry == fixed[i]
         IN  PlaceFixed([entries  |-> [r.entries EXCEPT ![fixedEntry.index] = fixedEntry],
                         maxIndex |-> IF fixedEntry.index > r.maxIndex
                                      THEN fixedEntry.index ELSE r.maxIndex],
                        fixed, i + 1)

NoImagesPlace ==
    /\ AtCheck
    /\ palette.numFixedEntries <= palette.maxEntries
    /\ palette.numImages = 0
    /\ palette.numFixedEntries # 0
    /\ LET r == PlaceFixed([entries |-> palette.entries, maxIndex |-> -1],
                           palette.fixedEntries, 1)
       IN  palette' = [palette EXCEPT !.entries = r.entries,
                                      !.numEntries = r.maxIndex + 1]
    /\ Return(0, "none")
    /\ UNCHANGED <<converts, loc, liq, heap, init>>

(***************************************************************************)
(* palette_generate_with_images: set-up of the quantizer                   *)
(***************************************************************************)
NumExact(fixed) == Cardinality({k \in 1 .. Len(fixed) : fixed[k].exact})

\* The non-exact fixed colours are converted in place.
ConvertNonExact(fixed, mode) ==
    [k \in 1 .. Len(fixed) |->
        IF fixed[k].exact
        THEN fixed[k]
        ELSE [fixed[k] EXCEPT !.color = ColorConvert(@, mode)]]

\* What liq_histogram_add_fixed_color received, in order.
NonExactColors(fixed) ==
    LET keep(e) == ~e.exact
        kept == SelectSeq(fixed, keep)
    IN  [k \in 1 .. Len(kept) |-> kept[k].color]

WithImagesBegin ==
    /\ AtCheck
    /\ palette.numFixedEntries <= palette.maxEntries
    /\ palette.numImages > 0
    /\ LET exactEntries == NumExact(palette.fixedEntries)
           maxEntries == palette.maxEntries - exactEntries
           fixed == ConvertNonExact(palette.fixedEntries, palette.mode)
       IN  /\ palette' = [palette EXCEPT !.fixedEntries = fixed]
           /\ loc' = [loc EXCEPT !.attr = "live", !.hist = "live",
                                 !.exactEntries = exactEntries,
                                 !.maxEntries = maxEntries,
                                 !.i = 0]
           /\ liq' = [liq EXCEPT !.created.attr = @ + 1,
                                 !.created.hist = @ + 1,
                                 !.maxColors = maxEntries,
                                 !.fixedColors = NonExactColors(fixed)]
    /\ pc' = "wi_loop"
    /\ UNCHANGED <<converts, ret, err, heap, init>>

(***************************************************************************)
(* palette_generate_with_images: reading the images                        *)
(***************************************************************************)
InImageLoop ==
    /\ pc = "wi_loop"
    /\ loc.i < palette.numImages
    /\ loc.maxEntries > 1

\* image_load(image): the decoded pixels, or a failure.
ImageLoads(image) == image.path \in DOMAIN Disk

LoadImage ==
    /\ InImageLoop
    /\ LET image == palette.images[loc.i + 1]
       IN  /\ ImageLoads(image)
           /\ palette' = [palette EXCEPT !.images[loc.i + 1].data = Disk[image.path],
                                          !.images[loc.i + 1].buffer = "live"]
    /\ heap' = [heap EXCEPT !.loaded = @ + 1]
    /\ pc' = "wi_loaded"
    /\ UNCHANGED <<converts, ret, err, loc, liq, init>>

\* LoadImageFail with liq_histogram_destroy forgotten on the error path.
LoadImageFailLeak ==
    /\ InImageLoop
    /\ ~ImageLoads(palette.images[loc.i + 1])
    /\ liq' = Destroy(liq, "attr")
    /\ loc' = [loc EXCEPT !.attr = "destroyed"]
    /\ Return(1, "image_load")
    /\ UNCHANGED <<palette, converts, heap, init>>

LoadImageFail ==
    /\ InImageLoop
    /\ ~ImageLoads(palette.images[loc.i + 1])
    /\ liq' = Destroy(Destroy(liq, "hist"), "attr")
    /\ loc' = [loc EXCEPT !.hist = "destroyed", !.attr = "destroyed"]
    /\ Return(1, "image_load")
    /\ UNCHANGED <<palette, converts, heap, init>>

\* MatchesExact with the comparison of the blue channel forgotten.
MatchesExactNoBlue(color, fixed) ==
    \E k \in 1 .. Len(fixed) :
        /\ fixed[k].exact
        /\ color.r = fixed[k].color.r
        /\ color.g = fixed[k].color.g

\* The test of the inner loop over the fixed entries: the pixel has the
\* rgb of an exact fixed entry.
MatchesExact(color, fixed) ==
    \E k \in 1 .. Len(fixed) :
        /\ fixed[k].exact
        /\ color.r = fixed[k].color.r
        /\ color.g = fixed[k].color.g
        /\ color.b = fixed[k].color.b

RECURSIVE FilterPixels(_, _, _, _, _)
\* The loop over the pixels of one image: pixel j (from 1) is read from
\* data, and a pixel that is kept is converted and written back at
\* position numcolors + 1 of the same buffer.
FilterPixels(data, j, numcolors, fixed, mode) ==
    IF j > Len(data)
    THEN [data |-> data, numcolors |-> numcolors]
    ELSE IF MatchesExact(data[j], fixed)
         THEN FilterPixels(data, j + 1, numcolors, fixed, mode)
         ELSE FilterPixels([data EXCEPT ![numcolors + 1] = ColorConvert(data[j], mode)],
                           j + 1, numcolors + 1, fixed, mode)

ProcessImage ==
    /\ pc = "wi_loaded"
    /\ LET image == palette.images[loc.i + 1]
           f == FilterPixels(image.data, 1, 0, palette.fixedEntries, palette.mode)
       IN  /\ palette' = [palette EXCEPT !.images[loc.i + 1].data = << >>,
                                          !.images[loc.i + 1].buffer = "freed"]
           /\ IF f.numcolors > 0
              THEN /\ liq' = [Destroy(liq, "image") EXCEPT
                                !.created.image = @ + 1,
                                !.rows = Append(@, SubSeq(f.data, 1, f.numcolors))]
                   /\ loc' = [loc EXCEPT !.needquantize = TRUE, !.i = @ + 1]
              ELSE /\ liq' = liq
                   /\ loc' = [loc EXCEPT !.i = @ + 1]
    /\ heap' = [heap EXCEPT !.freed = @ + 1]
    /\ pc' = "wi_loop"
    /\ UNCHANGED <<converts, ret, err, init>>

(***************************************************************************)
(* palette_generate_with_images: quantizing                                *)
(***************************************************************************)
ImageLoopDone ==
    /\ pc = "wi_loop"
    /\ ~(loc.i < palette.numImages /\ loc.maxEntries > 1)

\* The colour lists the quantizer can return when told to use at most
\* maxColors colours.
QuantOutputs(maxColors) ==
    UNION {[1 .. k -> QuantColors] : k \in 1 .. maxColors}

\* The loops over the fixed entries: the first entry at or after i (from
\* 0) that the loop does not skip, numFixedEntries when there is none.
NextOfKind(exact, i) ==
    LET rest == {k \in i .. (palette.numFixedEntries - 1) :
                    palette.fixedEntries[k + 1].exact = exact}
    IN  IF rest = {} THEN palette.numFixedEntries ELSE Min(rest)

\* Where the call stands when the loop at `at` has skipped on from entry
\* i: <<pc, i>>.
Position(at, i) ==
    IF at = "wi_nonexact" /\ NextOfKind(FALSE, i) < palette.numFixedEntries
    THEN <<"wi_nonexact", NextOfKind(FALSE, i)>>
    ELSE LET from == IF at = "wi_nonexact" THEN 0 ELSE i
         IN  IF NextOfKind(TRUE, from) < palette.numFixedEntries
             THEN <<"wi_exact", NextOfKind(TRUE, from)>>
             ELSE <<"wi_finish", 0>>

AfterFixed(at, i) == Position(at, i)[1]

AfterFixedIndex(at, i) == Position(at, i)[2]

\* The loop that stores the quantized palette; the alpha of the stored
\* colours is never written.
StoreQuantized(entries, liqpalette, mode) ==
    [s \in SlotsAndBehind |->
        IF s < Len(liqpalette)
        THEN [entries[s] EXCEPT
                !.color = ColorConvert(Color(liqpalette[s + 1].r, liqpalette[s + 1].g,
                                             liqpalette[s + 1].b, Indeterminate), mode),
                !.valid = TRUE]
        ELSE entries[s]]

\* QuantizeFail with the error tested only after the palette was stored.
QuantizeFailLate ==
    /\ ImageLoopDone
    /\ loc.needquantize
    /\ \E liqpalette \in QuantOutputs(loc.maxEntries) :
        palette' = [palette EXCEPT
                      !.entries = StoreQuantized(@, liqpalette, palette.mode)]
    /\ liq' = [Destroy(Destroy(liq, "hist"), "attr") EXCEPT !.quantized = @ + 1]
    /\ loc' = [loc EXCEPT !.hist = "destroyed", !.attr = "destroyed"]
    /\ Return(1, "quantize")
    /\ UNCHANGED <<converts, heap, init>>

QuantizeFail ==
    /\ ImageLoopDone
    /\ loc.needquantize
    /\ liq' = [Destroy(Destroy(liq, "hist"), "attr") EXCEPT !.quantized = @ + 1]
    /\ loc' = [loc EXCEPT !.hist = "destroyed", !.attr = "destroyed"]
    /\ Return(1, "quantize")
    /\ UNCHANGED <<palette, converts, heap, init>>

Quantize ==
    /\ ImageLoopDone
    /\ loc.needquantize
    /\ \E liqpalette \in QuantOutputs(loc.maxEntries) :
        /\ palette' = [palette EXCEPT
                         !.entries = StoreQuantized(@, liqpalette, palette.mode)]
        /\ loc' = [loc EXCEPT !.liqresult = "live",
                              !.liqpalette = liqpalette,
                              !.maxIndex = Len(liqpalette) - 1,
                              !.i = AfterFixedIndex("wi_nonexact", 0)]
    /\ liq' = [liq EXCEPT !.created.result = @ + 1, !.quantized = @ + 1]
    /\ pc' = AfterFixed("wi_nonexact", 0)
    /\ UNCHANGED <<converts, ret, err, heap, init>>

SkipQuantize ==
    /\ ImageLoopDone
    /\ ~loc.needquantize
    /\ loc' = [loc EXCEPT !.i = AfterFixedIndex("wi_nonexact", 0)]
    /\ pc' = AfterFixed("wi_nonexact", 0)
    /\ UNCHANGED <<palette, converts, ret, err, liq, heap, init>>

(***************************************************************************)
(* palette_generate_with_images: the non-exact fixed colours               *)
(***************************************************************************)
\* The first j < count whose entry has the rgb of the fixed entry, or -1.
FirstMatch(entries, fixedEntry, count) ==
    LET hits == {j \in 0 .. (count - 1) :
                    /\ fixedEntry.color.r = entries[j].color.r
                    /\ fixedEntry.color.g = entries[j].color.g
                    /\ fixedEntry.color.b = entries[j].color.b}
    IN  IF hits = {} THEN -1 ELSE Min(hits)

\* One pass of the loop over the non-exact fixed entries: r is
\* <<entries, maxIndex>>, count is liqpalette->count.
SwapNonExact(r, fixedEntry, count) ==
    LET j == FirstMatch(r.entries, fixedEntry, count)
    IN  IF j = -1
        THEN r
        ELSE LET tmpEntry == r.entries[j]
                 moved == [r.entries EXCEPT ![j] = r.entries[fixedEntry.index]]
             IN  [entries  |-> [moved EXCEPT ![fixedEntry.index] =
                                    [tmpEntry EXCEPT !.valid = TRUE]],
                  maxIndex |-> IF fixedEntry.index > r.maxIndex
                               THEN fixedEntry.index ELSE r.maxIndex]

NonExactBody(count) ==
    LET fixedEntry == palette.fixedEntries[loc.i + 1]
        r == SwapNonExact([entries |-> palette.entries, maxIndex |-> loc.maxIndex],
                          fixedEntry, count)
    IN  /\ palette' = [palette EXCEPT !.entries = r.entries]
        /\ loc' = [loc EXCEPT !.maxIndex = r.maxIndex,
                              !.i = AfterFixedIndex("wi_nonexact", loc.i + 1)]
        /\ pc' = AfterFixed("wi_nonexact", loc.i + 1)
        /\ UNCHANGED <<converts, ret, err, liq, heap, init>>

NonExactStep ==
    /\ pc = "wi_nonexact"
    /\ loc.liqresult # NULL
    /\ NonExactBody(Len(loc.liqpalette))

\* Without quantization liqpalette is NULL and liqpalette->count reads
\* through it: the process dies, or the read yields some number.
NonExactNullRead ==
    /\ pc = "wi_nonexact"
    /\ loc.liqresult = NULL
    /\ \/ /\ pc' = "crashed"
          /\ UNCHANGED <<palette, converts, ret, err, loc, liq, heap, init>>
       \/ \E count \in 0 .. PALETTE_MAX_ENTRIES : NonExactBody(count)

(***************************************************************************)
(* palette_generate_with_images: the exact fixed colours                   *)
(***************************************************************************)
\* Where the scan for a slot that is not valid stops.
FirstFree(entries) ==
    LET free == {j \in Slots : ~entries[j].valid}
    IN  IF free = {} THEN PALETTE_MAX_ENTRIES ELSE Min(free)

\* One pass of the loop over the exact fixed entries, for an entry whose
\* colour is already converted: r is <<entries, maxIndex>>.
PlaceExact(r, fixedEntry) ==
    LET occupied == r.entries[fixedEntry.index].valid
        j == FirstFree(r.entries)
        moved == IF occupied
                 THEN [r.entries EXCEPT ![j] = r.entries[fixedEntry.index]]
                 ELSE r.entries
        m == IF occupied /\ j > r.maxIndex THEN j ELSE r.maxIndex
    IN  [entries  |-> [moved EXCEPT ![fixedEntry.index] =
                          [fixedEntry EXCEPT !.valid = TRUE]],
         maxIndex |-> IF fixedEntry.index > m THEN fixedEntry.index ELSE m]

ExactStep ==
    /\ pc = "wi_exact"
    /\ LET fixedEntry == [palette.fixedEntries[loc.i + 1] EXCEPT
                             !.color = ColorConvert(@, palette.mode)]
           r == PlaceExact([entries |-> palette.entries, maxIndex |-> loc.maxIndex],
                           fixedEntry)
       IN  /\ palette' = [palette EXCEPT !.fixedEntries[loc.i + 1] = fixedEntry,
                                         !.entries = r.entries]
           /\ loc' = [loc EXCEPT !.maxIndex = r.maxIndex,
                                 !.i = AfterFixedIndex("wi_exact", loc.i + 1)]
    /\ pc' = AfterFixed("wi_exact", loc.i + 1)
    /\ UNCHANGED <<converts, ret, err, liq, heap, init>>

(***************************************************************************)
(* palette_generate_with_images: the end                                   *)
(***************************************************************************)
Finish ==
    /\ pc = "wi_finish"
    /\ palette' = [palette EXCEPT !.numEntries = loc.maxIndex + 1]
    /\ liq' = LET l == IF loc.liqresult = NULL THEN liq ELSE Destroy(liq, "result")
              IN  Destroy(Destroy(l, "hist"), "attr")
    /\ loc' = [loc EXCEPT !.liqresult = IF @ = NULL THEN NULL ELSE "destroyed",
                          !.hist = "destroyed", !.attr = "destroyed"]
    /\ Return(0, "none")
    /\ UNCHANGED <<converts, heap, init>>

Next ==
    \/ GenerateBuiltin
    \/ AutomaticBuild
    \/ TooManyFixed
    \/ NoImagesEmpty
    \/ NoImagesPlace
    \/ WithImagesBegin
    \/ LoadImage
    \/ LoadImageFail
    \/ ProcessImage
    \/ QuantizeFail
    \/ Quantize
    \/ SkipQuantize
    \/ NonExactStep
    \/ NonExactNullRead
    \/ ExactStep
    \/ Finish

Spec == Init /\ [][Next]_vars

SpecStale == InitStale /\ [][Next]_vars
(***************************************************************************)
(* Properties.                                                             *)
(***************************************************************************)
Succeeded == pc = "done" /\ ret = 0

Failed == pc = "done" /\ ret # 0

\* palette_generate_with_images was entered.
WithImages == loc.attr # NULL

\* The fixed entries as they were declared.
Declared == init.fixedEntries

\* The slots of the table whose entry is valid.
ValidSlots(entries) == {s \in Slots : entries[s].valid}

\* C1: after a successful palette_generate of a palette that is not
\* builtin, every exact fixed entry's colour, converted to the palette's
\* mode, is at its pinned index and valid.
C1_ExactAtPinnedIndex ==
    (Succeeded /\ ~IsBuiltin) =>
        \A k \in 1 .. Len(Declared) :
            Declared[k].exact =>
                /\ palette.entries[Declared[k].index].valid
                /\ palette.entries[Declared[k].index].color =
                       ColorConvert(Declared[k].color, palette.mode)

\* C2: after a successful palette_generate, numEntries <= maxEntries.
C2_NumEntriesWithinCapacity ==
    Succeeded => palette.numEntries <= palette.maxEntries

\* C3: after a successful palette_generate, numEntries is 1 + the largest
\* index whose entry is valid (0 when no entry is valid).
C3_NumEntriesIsTopValid ==
    Succeeded =>
        palette.numEntries =
            IF ValidSlots(palette.entries) = {}
            THEN 0
            ELSE 1 + Max(ValidSlots(palette.entries))
\* How many valid entries of the table hold the colour c.
CountValid(entries, c) ==
    Cardinality({s \in ValidSlots(entries) : entries[s].color = c})

\* Every valid entry of `before` is matched by a valid entry of the same
\* colour in `after` (as multisets).
KeepsColours(before, after) ==
    \A s \in ValidSlots(before) :
        CountValid(before, before[s].color) <= CountValid(after, before[s].color)

\* C4: a non-exact swap or an exact placement loses no colour: the
\* multiset of valid colours before the step is contained in the multiset
\* after it.
C4_PlacementKeepsColours ==
    [][(pc \in {"wi_nonexact", "wi_exact"} /\ pc' # "crashed")
          => KeepsColours(palette.entries, palette'.entries)]_vars

\* The call is over: it returned, or the process died.
Over == pc \in {"done", "crashed"}

\* Slot s holds fixed entry f: f's colour converted to the mode.
HoldsFixed(s, f) ==
    /\ f.index = s
    /\ palette.entries[s].color = ColorConvert(f.color, palette.mode)

\* C5: when the palette has images, every image that is read loads, and
\* no pixel is submitted to the quantizer, the call returns success without
\* quantizing, and the valid entries of the table are exactly the fixed
\* entries at their pinned indices.
C5_NoPixelsFixedOnly ==
    (Over /\ WithImages /\ err # "image_load" /\ liq.rows = << >>) =>
        /\ ret = 0
        /\ liq.quantized = 0
        /\ ValidSlots(palette.entries) = {Declared[k].index : k \in 1 .. Len(Declared)}
        /\ \A s \in ValidSlots(palette.entries) :
              \E k \in 1 .. Len(Declared) : HoldsFixed(s, Declared[k])

\* C6: when palette_generate returns an error, entries and numEntries are
\* as they were before the call.
C6_ErrorLeavesTable ==
    Failed =>
        /\ palette.entries = init.entries
        /\ palette.numEntries = init.numEntries

\* A quantizer failure, the last error the call can return, with fixed
\* entries declared.
C6_Witness ==
    /\ Failed
    /\ err = "quantize"
    /\ palette.numFixedEntries > 0

\* C7: a palette that is not builtin fails with the too-many-fixed-colors
\* error exactly when numFixedEntries > maxEntries (once the automatic
\* collection has succeeded); then no image was loaded, no quantizer was
\* created and every table entry has valid = false.
C7_TooManyFixed ==
    (pc = "done" /\ ~IsBuiltin /\ err # "automatic") =>
        /\ (err = "too_many_fixed") <=> (palette.numFixedEntries > palette.maxEntries)
        /\ err = "too_many_fixed" =>
              /\ heap.loaded = 0
              /\ liq.created.attr = 0
              /\ liq.created.hist = 0
              /\ \A s \in Slots : ~palette.entries[s].valid

\* C8: for a builtin name palette_generate succeeds with numEntries = 256
\* (the table size), every entry valid and holding the i-th triplet of the
\* reference table converted to the palette's mode, and images, fixed
\* entries, automatic flag and job descriptors unchanged.
C8_BuiltinTable ==
    (pc = "done" /\ IsBuiltin) =>
        /\ ret = 0
        /\ palette.numEntries = PALETTE_MAX_ENTRIES
        /\ \A s \in Slots :
              /\ palette.entries[s].valid
              /\ palette.entries[s].color =
                     ColorConvert(BuiltinTable(palette.name, s), palette.mode)
        /\ palette.images = init.images
        /\ palette.fixedEntries = init.fixedEntries
        /\ palette.automatic = init.automatic
        /\ converts = Jobs
\* The image buffers that are allocated.
LiveBuffers == {k \in 1 .. Len(palette.images) : palette.images[k].buffer = "live"}

Handles == {"attr", "hist", "image", "result"}

\* C9: when palette_generate_with_images returns, every quantizer handle
\* that was created has been destroyed once and every image buffer that
\* was loaded has been freed; no handle is ever destroyed more often than
\* created, and never are two image buffers allocated at once.
C9_ResourcesReleased ==
    /\ Cardinality(LiveBuffers) <= 1
    /\ \A h \in Handles : liq.destroyed[h] <= liq.created[h]
    /\ (pc = "done" /\ WithImages) =>
          /\ \A h \in Handles : liq.destroyed[h] = liq.created[h]
          /\ liq.created.attr = 1 /\ liq.created.hist = 1
          /\ heap.freed = heap.loaded
          /\ LiveBuffers = {}

\* An image failed to load after another one was loaded, submitted and
\* freed.
C9_Witness ==
    /\ Failed
    /\ err = "image_load"
    /\ heap.loaded >= 1
    /\ liq.created.image >= 1

\* The pixels of the n-th image that the quantizer is to receive: those
\* whose rgb differs from the declared rgb of every exact fixed entry, in
\* order, each converted to the palette's mode.
Submitted(n) ==
    LET differs(px) == \A k \in 1 .. Len(Declared) :
                           Declared[k].exact => ~SameRGB(px, Declared[k].color)
        kept == SelectSeq(Disk[palette.images[n].path], differs)
    IN  [m \in 1 .. Len(kept) |-> ColorConvert(kept[m], palette.mode)]

RECURSIVE SubmittedRows(_)
\* What the first n images are to submit; an image with no pixel left
\* submits nothing.
SubmittedRows(n) ==
    IF n = 0 THEN << >>
    ELSE IF Submitted(n) = << >> THEN SubmittedRows(n - 1)
    ELSE Append(SubmittedRows(n - 1), Submitted(n))

\* C10: the pixels submitted to the quantizer for the images read so far
\* are, image by image, the pixels whose rgb differs from that of every
\* exact fixed entry, in order, each converted to the palette's mode.
C10_SubmittedPixels ==
    WithImages => liq.rows = SubmittedRows(heap.freed)

\* Two images were read, one that lost all its pixels to the filter and
\* one that lost some of them.
C10_Witness ==
    /\ WithImages
    /\ \E n \in 1 .. heap.freed : Submitted(n) = << >>
    /\ \E n \in 1 .. heap.freed :
          /\ Submitted(n) # << >>
          /\ Len(Submitted(n)) < Len(Disk[palette.images[n].path])
\* The fixed entries are pinned at pairwise distinct indices.
DistinctIndices ==
    \A k, l \in 1 .. Len(Declared) :
        k # l => Declared[k].index # Declared[l].index

\* The quantizer returned the colour c (as the code stores it: converted).
InQuantOutput(c) ==
    \E n \in 1 .. Len(loc.liqpalette) :
        SameRGB(ColorConvert(loc.liqpalette[n], palette.mode), c)

\* C11: after a successful palette_generate that quantized, with the fixed
\* entries at pairwise distinct indices, every non-exact fixed entry whose
\* converted rgb is in the quantizer's output has that colour, valid, at
\* its pinned index.
C11_NonExactAtPinnedIndex ==
    (Succeeded /\ WithImages /\ liq.quantized > 0 /\ DistinctIndices) =>
        \A k \in 1 .. Len(Declared) :
            (/\ ~Declared[k].exact
             /\ InQuantOutput(ColorConvert(Declared[k].color, palette.mode))) =>
                /\ palette.entries[Declared[k].index].valid
                /\ SameRGB(palette.entries[Declared[k].index].color,
                           ColorConvert(Declared[k].color, palette.mode))
\* palette_generate got past the automatic collection with no image listed.
NoImagesAfterCollection ==
    /\ pc = "done"
    /\ ~IsBuiltin
    /\ err # "automatic"
    /\ palette.numImages = 0

\* The last fixed entry declared with the pinned index s.
LastPinnedAt(s) ==
    Declared[Max({k \in 1 .. Len(Declared) : Declared[k].index = s})]

\* What the claim promises of the path without images: the empty-palette
\* error without fixed entries, else success with no quantizer created,
\* the fixed entries copied to their pinned indices and numEntries one
\* more than the largest pinned index.
NoImagesOutcome ==
    IF Len(Declared) = 0
    THEN ret # 0 /\ err = "empty"
    ELSE /\ ret = 0
         /\ \A h \in Handles : liq.created[h] = 0
         /\ \A k \in 1 .. Len(Declared) :
               palette.entries[Declared[k].index] = LastPinnedAt(Declared[k].index)
         /\ palette.numEntries =
               1 + Max({Declared[k].index : k \in 1 .. Len(Declared)})

\* C12 as stated: a palette that is not builtin and has no images after
\* collection fails with the empty-palette error when it has no fixed
\* entry, and otherwise succeeds with the fixed entries copied to their
\* pinned indices and numEntries = 1 + the largest pinned index.
C12_AsStated ==
    NoImagesAfterCollection => NoImagesOutcome

\* C12, amended: the same, for a palette whose numFixedEntries does not
\* exceed maxEntries (the too-many-fixed-colors check comes first).
C12_NoImagesPath ==
    (NoImagesAfterCollection /\ palette.numFixedEntries <= palette.maxEntries)
        => NoImagesOutcome

\* An automatic palette that no job uses, so that the collection leaves it
\* without images, was built from its fixed entry.
C12_Witness ==
    /\ NoImagesAfterCollection
    /\ palette.automatic
    /\ Succeeded
    /\ Len(Declared) > 0
\* The paths of a palette's image list.
ImagePaths(p) == [k \in 1 .. Len(p.images) |-> p.images[k].path]

RECURSIVE JobImages(_, _)
\* The paths the jobs up to the n-th are to contribute to the palette
\* called name: those of the jobs that name it, job by job, a job's images
\* before its tileset group's.
JobImages(name, n) ==
    IF n = 0 THEN << >>
    ELSE JobImages(name, n - 1) \o
         (IF Jobs[n].paletteName # name THEN << >>
          ELSE Jobs[n].images \o
               (IF Jobs[n].tilesetGroup = NULL THEN << >> ELSE Jobs[n].tilesetGroup))

\* C13: in automatic mode the collection appends to the palette's images
\* exactly the images of the jobs that name the palette, in job order, a
\* job's own images before its tileset group's; a failed registration
\* stops the collection and palette_generate returns its error.
C13_AutomaticCollection ==
    (~IsBuiltin /\ init.automatic) =>
        /\ (pc # "generate" /\ err # "automatic") =>
              /\ ImagePaths(palette) =
                    ImagePaths(init) \o JobImages(init.name, Len(Jobs))
              /\ palette.numImages = Len(palette.images)
        /\ err = "automatic" =>
              /\ pc = "done"
              /\ ret = 1
              /\ palette.numImages <
                    init.numImages + Len(JobImages(init.name, Len(Jobs)))
              /\ \A h \in Handles : liq.created[h] = 0

\* An automatic palette that listed an image itself and is named by two
\* jobs was generated from the collected images.
C13_Witness ==
    /\ Succeeded
    /\ init.automatic
    /\ init.name = "pal"
    /\ init.numImages > 0
    /\ palette.numImages = init.numImages + 3
\* The exact loop stands before a fixed entry whose pinned index holds a
\* valid entry.
PinnedIndexOccupied ==
    /\ pc = "wi_exact"
    /\ palette.entries[palette.fixedEntries[loc.i + 1].index].valid

\* C14: whenever an exact fixed entry finds its pinned index occupied by a
\* valid entry, the scan for a free slot stops at an index inside the
\* table, so the displaced entry is never written at
\* entries[PALETTE_MAX_ENTRIES].
C14_FreeSlotInsideTable ==
    PinnedIndexOccupied => FirstFree(palette.entries) < PALETTE_MAX_ENTRIES
====
